---------------------------- MODULE Spec2Model ----------------------------
(***************************************************************************)
(* The flow editor of the chatbot builder: the graph held by the           *)
(* FlowBuilderModule component (nodes, edges), its snapshot history with   *)
(* the debounced saveToHistory timer, undo and redo, the two effects that  *)
(* run when the number of nodes changes, the JSON import and export of     *)
(* the sidebar and of the navigation bar, and the host's loadData message. *)
(*                                                                         *)
(* One action is one event handler together with the React effects that    *)
(* its state updates trigger.  Ids made by nanoid() are taken from the     *)
(* counter nextId; ids that come from a file or a host message are taken   *)
(* from FileIds.                                                           *)
(***************************************************************************)
EXTENDS Integers, Sequences, FiniteSets, TLC

VARIABLES
    nodes,        \* Node[]  (useNodesState)
    edges,        \* Edge[]  (useEdgesState)
    history,      \* historyRef.current: sequence of {nodes, edges}
    cursor,       \* historyIndexRef.current (0-based, -1 before initialisation)
    canUndo,      \* canUndoState
    canRedo,      \* canRedoState
    pending,      \* saveTimeoutRef holds a timer that has not fired yet
    cases,        \* useCaseStore.cases
    clipboard,    \* the last diagram.json written by handleDownload
    nextId,       \* the next id nanoid() returns
    exporting,    \* the exportAsSvg call in flight and the edges of its closure
    mounted,      \* FlowBuilderModule is mounted
    polling,      \* the scheduled measurement polls of the added nodes: [id, tries]
    lastOp,       \* what the last handler did (its branch, alert and reply)
    rt            \* observer of the scenario edit, checkpoint, undo, redo

vars == <<nodes, edges, history, cursor, canUndo, canRedo, pending, cases,
          clipboard, nextId, exporting, mounted, polling, lastOp, rt>>

----------------------------------------------------------------------------
(* Bounds of the model *)

MaxId == 6          \* nanoid() is called at most MaxId times
MaxHist == 2        \* edits stop once the history holds this many snapshots
MaxRetries == 2     \* a measurement poll is rescheduled at most MaxRetries times

(* Program constants *)

maxHistorySize == 50

----------------------------------------------------------------------------
(* Values *)

Absent == 0                         \* an undefined / null field
NoType == ""                        \* a node or edge without a type
FileIds == {91, 92, 93, 94}           \* ids found in files and host messages
CaseIds == {71, 72}                 \* ids of the case catalog
initialCases == { [id |-> 71, value |-> "Allowed"], [id |-> 72, value |-> "Denied"] }
Positions == { [x |-> 100, y |-> 100], [x |-> 400, y |-> 100], [x |-> 250, y |-> 300] }

Range(s) == { s[i] : i \in 1..Len(s) }

NodeIds(ns) == { ns[i].id : i \in 1..Len(ns) }

FindNode(ns, id) == CHOOSE i \in 1..Len(ns) : ns[i].id = id /\ \A j \in 1..(i-1) : ns[j].id # id

Node(id, type, pos, deletable, paths) ==
    [id |-> id, type |-> type, position |-> pos, deletable |-> deletable, paths |-> paths]

Edge(id, source, target, type, sourceHandle, targetHandle) ==
    [id |-> id, source |-> source, target |-> target, type |-> type,
     sourceHandle |-> sourceHandle, targetHandle |-> targetHandle]

Snapshot(ns, es) == [nodes |-> ns, edges |-> es]

----------------------------------------------------------------------------
(* createDefaultNodes / createDefaultEdges *)

createDefaultNodes(id) ==
    << Node(id, "start", [x |-> 100, y |-> 100], FALSE, <<>>),
       Node(id + 1, "end", [x |-> 400, y |-> 100], FALSE, <<>>) >>

createDefaultEdges(ns, id) ==
    IF Len(ns) >= 2
    THEN << Edge(id, ns[1].id, ns[2].id, "deletable", Absent, Absent) >>
    ELSE <<>>

----------------------------------------------------------------------------
(* The two effects keyed on nodes.length.  oldLen is nodes.length at the   *)
(* previous render, ns and es the lists the handler has just set.          *)
(* The result is the state once the effects have run and the component     *)
(* has rendered again.                                                     *)

HistoryInit(ns, es) ==
    [history |-> << Snapshot(ns, es) >>, cursor |-> 0, canUndo |-> FALSE, canRedo |-> FALSE]

HistoryKeep == [history |-> history, cursor |-> cursor, canUndo |-> canUndo, canRedo |-> canRedo]

\* the effects without the fallback: an empty node list stays
EffectsNoFallback(oldLen, ns, es, h) ==
    IF Len(ns) # oldLen /\ Len(ns) > 0
    THEN [nodes |-> ns, edges |-> es, h |-> HistoryInit(ns, es), used |-> 0]
    ELSE [nodes |-> ns, edges |-> es, h |-> h, used |-> 0]

Effects(oldLen, ns, es, h) ==
    IF Len(ns) = 0
    THEN \* fallback effect: install the default graph, then the history
         \* effect sees nodes.length go from 0 to 2
         LET dn == createDefaultNodes(nextId)
             de == createDefaultEdges(dn, nextId + 2)
         IN  [nodes |-> dn, edges |-> de, h |-> HistoryInit(dn, de), used |-> 3]
    ELSE IF Len(ns) # oldLen
    THEN [nodes |-> ns, edges |-> es, h |-> HistoryInit(ns, es), used |-> 0]
    ELSE [nodes |-> ns, edges |-> es, h |-> h, used |-> 0]

----------------------------------------------------------------------------
(* Observers.  lastOp tells which branch the last handler took; rt follows *)
(* the scenario "edit from a recorded state A, checkpoint as B, undo,      *)
(* redo".                                                                  *)

NoDoc == [parses |-> FALSE, nodesArr |-> FALSE, edgesArr |-> FALSE, edgesOk |-> FALSE,
          nodes |-> <<>>, edges |-> <<>>]

\* op: the handler; ok: it took its main branch; alert: the alert shown;
\* reply: the dataLoaded answer; n, k: numbers the handler worked with
\* (ids, counts, messages posted); doc: the document it accepted;
\* origin, type: the origin and the type of the message received; to: the
\* target origin of the answer
Op(op, ok) ==
    [op |-> op, ok |-> ok, alert |-> "none", n |-> 0, k |-> 0, reply |-> "none", doc |-> NoDoc,
     origin |-> "none", type |-> "none", to |-> "none"]

NoSnap == Snapshot(<<>>, <<>>)

NoExport == [on |-> FALSE, edges |-> <<>>]

RtIdle == [phase |-> "idle", kind |-> "none", a |-> NoSnap, b |-> NoSnap]

\* the graph on screen is the snapshot under the cursor and no checkpoint is due
Recorded ==
    /\ ~pending
    /\ cursor >= 0
    /\ cursor < Len(history)
    /\ history[cursor + 1] = Snapshot(nodes, edges)

RtEdit(kind) ==
    IF ~Recorded THEN RtIdle
    ELSE IF rt.phase = "undone"
    THEN [phase |-> "forked", kind |-> kind, a |-> Snapshot(nodes, edges), b |-> rt.b]
    ELSE [phase |-> "edited", kind |-> kind, a |-> Snapshot(nodes, edges), b |-> NoSnap]

RtDragMove ==
    IF rt.phase \in {"dragging", "forkDragging"} THEN rt
    ELSE IF ~Recorded THEN RtIdle
    ELSE IF rt.phase = "undone"
    THEN [phase |-> "forkDragging", kind |-> "drag", a |-> Snapshot(nodes, edges), b |-> rt.b]
    ELSE [phase |-> "dragging", kind |-> "drag", a |-> Snapshot(nodes, edges), b |-> NoSnap]

RtDragStop ==
    IF rt.phase = "dragging" THEN [rt EXCEPT !.phase = "edited"]
    ELSE IF rt.phase = "forkDragging" THEN [rt EXCEPT !.phase = "forked"]
    ELSE RtIdle

RtSaved(ns, es) ==
    IF rt.phase = "edited" THEN [rt EXCEPT !.phase = "saved", !.b = Snapshot(ns, es)]
    ELSE IF rt.phase = "forked" THEN [rt EXCEPT !.phase = "forkSaved"]
    ELSE RtIdle

RtUndo == IF rt.phase = "saved" THEN [rt EXCEPT !.phase = "undone"] ELSE RtIdle

RtRedo == IF rt.phase = "undone" THEN [rt EXCEPT !.phase = "redone"] ELSE RtIdle

----------------------------------------------------------------------------
(* Initial state: the component has mounted, the fallback effect has       *)
(* installed the default graph and the history effect has recorded it.     *)

Init ==
    /\ nodes = createDefaultNodes(1)
    /\ edges = createDefaultEdges(createDefaultNodes(1), 3)
    /\ history = << Snapshot(nodes, edges) >>
    /\ cursor = 0
    /\ canUndo = FALSE
    /\ canRedo = FALSE
    /\ pending = FALSE
    /\ cases = initialCases
    /\ clipboard = NoDoc
    /\ nextId = 4
    /\ exporting = NoExport
    /\ mounted = TRUE
    /\ polling = {}
    /\ lastOp = Op("mount", TRUE)
    /\ rt = RtIdle

----------------------------------------------------------------------------
(* History engine *)

isRestoring == FALSE    \* isRestoringRef.current between two handlers

\* saveToHistory(): (re)start the 100 ms timer unless a restore is running
saveToHistory == IF isRestoring THEN pending ELSE TRUE

\* the next checkpoint leaves at most MaxHist snapshots (bound of the model)
HistRoom == cursor + 2 <= MaxHist

\* the callback without its slice(0, index + 1): the snapshot is pushed
\* behind whatever the history holds
CheckpointNoSlice(ns, es) ==
    LET pushed == Append(history, Snapshot(ns, es))
        over == Len(pushed) > maxHistorySize
        h == IF over THEN Tail(pushed) ELSE pushed
        c == IF over THEN Len(pushed) - 2 ELSE Len(pushed) - 1
    IN  [history |-> h, cursor |-> c, canUndo |-> (c > 0), canRedo |-> FALSE]

\* the callback without its size limit
CheckpointNoLimit(ns, es) ==
    LET kept == SubSeq(history, 1, cursor + 1)
        pushed == Append(kept, Snapshot(ns, es))
    IN  [history |-> pushed, cursor |-> Len(pushed) - 1, canUndo |-> (Len(pushed) > 1),
         canRedo |-> FALSE]

\* the callback with the index set to the length of the history instead
\* of length - 1
CheckpointIndexLength(ns, es) ==
    LET kept == SubSeq(history, 1, cursor + 1)
        pushed == Append(kept, Snapshot(ns, es))
        over == Len(pushed) > maxHistorySize
        h == IF over THEN Tail(pushed) ELSE pushed
        c == IF over THEN Len(pushed) - 1 ELSE Len(pushed)
    IN  [history |-> h, cursor |-> c, canUndo |-> (c > 0), canRedo |-> FALSE]

\* the setTimeout callback of saveToHistory
Checkpoint(ns, es) ==
    LET kept == SubSeq(history, 1, cursor + 1)
        pushed == Append(kept, Snapshot(ns, es))
        over == Len(pushed) > maxHistorySize
        h == IF over THEN Tail(pushed) ELSE pushed
        c == IF over THEN Len(pushed) - 2 ELSE Len(pushed) - 1
    IN  [history |-> h, cursor |-> c, canUndo |-> (c > 0), canRedo |-> FALSE]

ApplyHistory(h) ==
    /\ history' = h.history
    /\ cursor' = h.cursor
    /\ canUndo' = h.canUndo
    /\ canRedo' = h.canRedo

\* commit the lists a handler has set, then run the effects; the handler
\* itself has called nanoid() `made' times
Commit(ns, es, h, made) ==
    LET r == Effects(Len(nodes), ns, es, h)
    IN  /\ nextId + made + r.used - 1 <= MaxId
        /\ nextId' = nextId + made + r.used
        /\ nodes' = r.nodes
        /\ edges' = r.edges
        /\ ApplyHistory(r.h)

\* a callback that records the graph the history already holds under the
\* cursor (the graph as it was when the last snapshot was taken)
timerCallbackStale ==
    /\ pending
    /\ pending' = FALSE
    /\ ApplyHistory(Checkpoint(history[cursor + 1].nodes, history[cursor + 1].edges))
    /\ lastOp' = Op("checkpoint", TRUE)
    /\ rt' = RtSaved(nodes, edges)
    /\ UNCHANGED <<nodes, edges, cases, clipboard, nextId, exporting, mounted, polling>>

\* a callback whose timer stays armed after it has run
timerCallbackRearmed ==
    /\ pending
    /\ pending' = TRUE
    /\ ApplyHistory(Checkpoint(nodes, edges))
    /\ lastOp' = Op("checkpoint", TRUE)
    /\ rt' = RtSaved(nodes, edges)
    /\ UNCHANGED <<nodes, edges, cases, clipboard, nextId, exporting, mounted, polling>>

\* the timer of saveToHistory fires
timerCallback ==
    /\ pending
    /\ pending' = FALSE
    /\ ApplyHistory(Checkpoint(nodes, edges))
    /\ lastOp' = Op("checkpoint", TRUE)
    /\ rt' = RtSaved(nodes, edges)
    /\ UNCHANGED <<nodes, edges, cases, clipboard, nextId, exporting, mounted, polling>>

\* the timer fires while the history is within the bound of the model
TimerFire == HistRoom /\ timerCallback

\* undo that records the graph it restores as a new snapshot
undoRestoreCheckpointing ==
    LET c == cursor - 1
        previousState == history[c + 1]
        pushed == Append(SubSeq(history, 1, c + 1), previousState)
    IN  [nodes |-> previousState.nodes, edges |-> previousState.edges,
         h |-> [history |-> pushed, cursor |-> Len(pushed) - 1, canUndo |-> TRUE,
                canRedo |-> FALSE]]

undoRestore ==
    LET c == cursor - 1
        previousState == history[c + 1]
    IN  [nodes |-> previousState.nodes, edges |-> previousState.edges,
         h |-> [history |-> history, cursor |-> c, canUndo |-> (c > 0), canRedo |-> TRUE]]

\* undo that clamps the index at 0 instead of testing it
UndoClamped ==
    LET c == IF cursor > 0 THEN cursor - 1 ELSE 0
        previousState == history[c + 1]
    IN  /\ Commit(previousState.nodes, previousState.edges,
                  [history |-> history, cursor |-> c, canUndo |-> (c > 0), canRedo |-> TRUE], 0)
        /\ lastOp' = Op("undo", TRUE)
        /\ rt' = RtUndo
        /\ UNCHANGED <<pending, cases, clipboard, exporting, mounted, polling>>

Undo ==
    /\ IF cursor > 0
       THEN /\ Commit(undoRestore.nodes, undoRestore.edges, undoRestore.h, 0)
            /\ lastOp' = Op("undo", TRUE)
            /\ rt' = RtUndo
       ELSE /\ UNCHANGED <<nodes, edges, history, cursor, canUndo, canRedo, nextId, rt>>
            /\ lastOp' = Op("undo", FALSE)
    /\ UNCHANGED <<pending, cases, clipboard, exporting, mounted, polling>>

\* redo that leaves the redo button enabled
redoRestoreFlagSet ==
    LET c == cursor + 1
        nextState == history[c + 1]
    IN  [nodes |-> nextState.nodes, edges |-> nextState.edges,
         h |-> [history |-> history, cursor |-> c, canUndo |-> (c > 0), canRedo |-> TRUE]]

redoRestore ==
    LET c == cursor + 1
        nextState == history[c + 1]
    IN  [nodes |-> nextState.nodes, edges |-> nextState.edges,
         h |-> [history |-> history, cursor |-> c, canUndo |-> (c > 0),
                canRedo |-> (c < Len(history) - 1)]]

Redo ==
    /\ IF cursor < Len(history) - 1
       THEN /\ Commit(redoRestore.nodes, redoRestore.edges, redoRestore.h, 0)
            /\ lastOp' = Op("redo", TRUE)
            /\ rt' = RtRedo
       ELSE /\ UNCHANGED <<nodes, edges, history, cursor, canUndo, canRedo, nextId, rt>>
            /\ lastOp' = Op("redo", FALSE)
    /\ UNCHANGED <<pending, cases, clipboard, exporting, mounted, polling>>

----------------------------------------------------------------------------
(* Connection validator (use-is-valid-connection is not part of the        *)
(* sources at hand; the contract of the design document, section 4.2)      *)

NodeOf(ns, id) == ns[FindNode(ns, id)]

SingleUse(type) == type \in {"text-message", "conditional-path"}

\* the output handles a node shows: one per path, or its only handle
Handles(n) ==
    IF n.type = "conditional-path"
    THEN { n.paths[i].id : i \in 1..Len(n.paths) }
    ELSE {Absent}

\* the validator without its rule on handles that are in use
isValidConnectionNoCapacity(c, ns, es) ==
    /\ c.source # c.target
    /\ NodeOf(ns, c.target).type # "start"
    /\ NodeOf(ns, c.source).type # "end"

isValidConnection(c, ns, es) ==
    /\ c.source # c.target
    /\ NodeOf(ns, c.target).type # "start"
    /\ NodeOf(ns, c.source).type # "end"
    /\ ~ ( /\ SingleUse(NodeOf(ns, c.source).type)
           /\ \E i \in 1..Len(es) :
                 es[i].source = c.source /\ es[i].sourceHandle = c.sourceHandle )

\* addEdge of the flow library: an edge between the same handles is not
\* added twice
addEdge(e, es) ==
    IF \E i \in 1..Len(es) :
          /\ es[i].source = e.source /\ es[i].target = e.target
          /\ es[i].sourceHandle = e.sourceHandle /\ es[i].targetHandle = e.targetHandle
    THEN es
    ELSE Append(es, e)

Connections ==
    { [source |-> s, sourceHandle |-> h, target |-> t, targetHandle |-> Absent] :
        s \in NodeIds(nodes), t \in NodeIds(nodes),
        h \in UNION { Handles(nodes[i]) : i \in 1..Len(nodes) } }

\* onConnect on a canvas that was not given the validator
ConnectUnchecked(c) ==
    /\ c.sourceHandle \in Handles(NodeOf(nodes, c.source))
    /\ HistRoom
    /\ pending' = saveToHistory
    /\ Commit(nodes,
              addEdge(Edge(nextId, c.source, c.target, "deletable",
                           c.sourceHandle, c.targetHandle), edges),
              HistoryKeep, 1)
    /\ lastOp' = [Op("connect", TRUE) EXCEPT !.n = c.source, !.k = c.target]
    /\ rt' = RtEdit("connect")
    /\ UNCHANGED <<cases, clipboard, exporting, mounted, polling>>

\* a connection is proposed on the canvas; onConnect runs when the
\* validator accepts it
Connect(c) ==
    /\ c.sourceHandle \in Handles(NodeOf(nodes, c.source))
    /\ IF isValidConnection(c, nodes, edges)
       THEN /\ HistRoom
            /\ pending' = saveToHistory
            /\ Commit(nodes,
                      addEdge(Edge(nextId, c.source, c.target, "deletable",
                                   c.sourceHandle, c.targetHandle), edges),
                      HistoryKeep, 1)
            /\ lastOp' = [Op("connect", TRUE) EXCEPT !.n = c.source, !.k = c.target]
            /\ rt' = RtEdit("connect")
       ELSE /\ lastOp' = [Op("connect", FALSE) EXCEPT !.n = c.source, !.k = c.target]
            /\ UNCHANGED <<nodes, edges, history, cursor, canUndo, canRedo, pending,
                           nextId, rt>>
    /\ UNCHANGED <<cases, clipboard, exporting, mounted, polling>>

----------------------------------------------------------------------------
(* Node and edge changes *)

FreePositions == { p \in Positions : \A i \in 1..Len(nodes) : nodes[i].position # p }

\* handleNodesChangeWithHistory with one `add' change (a node dropped on the
\* canvas, at a place where it overlaps no other node)
AddNode(type, pos) ==
    /\ HistRoom
    /\ pos \in FreePositions
    /\ pending' = saveToHistory
    /\ Commit(Append(nodes, Node(nextId, type, pos, TRUE, <<>>)), edges, HistoryKeep, 1)
    /\ polling' = polling \cup {[id |-> nextId, tries |-> 0]}
    /\ lastOp' = Op("addNode", TRUE)
    /\ rt' = RtEdit("addNode")
    /\ UNCHANGED <<cases, clipboard, exporting, mounted>>

\* data.deletable of a node: the start and the end node cannot be deleted
isDeletable(n) == n.deletable

\* a delete that takes only the edges leaving the node
outgoingEdgesRemoved(es, id) ==
    SelectSeq(es, LAMBDA e : e.source # id)

\* the edges that stay when node id is deleted
connectedEdgesRemoved(es, id) ==
    SelectSeq(es, LAMBDA e : e.source # id /\ e.target # id)

\* the delete key on a node: `remove' changes for the node and for its edges
DeleteNode(id) ==
    /\ id \in NodeIds(nodes)
    /\ isDeletable(NodeOf(nodes, id))
    /\ HistRoom
    /\ pending' = saveToHistory
    /\ Commit(SelectSeq(nodes, LAMBDA n : n.id # id),
              connectedEdgesRemoved(edges, id), HistoryKeep, 0)
    /\ lastOp' = [Op("deleteNode", TRUE) EXCEPT
                      !.n = id, !.k = Len(edges) - Len(connectedEdgesRemoved(edges, id))]
    /\ rt' = RtEdit("deleteNode")
    /\ UNCHANGED <<cases, clipboard, exporting, mounted, polling>>

\* handleEdgesChangeWithHistory with one `remove' change (the button of a
\* deletable edge)
DeleteEdge(id) ==
    /\ \E i \in 1..Len(edges) : edges[i].id = id
    /\ HistRoom
    /\ pending' = saveToHistory
    /\ Commit(nodes, SelectSeq(edges, LAMBDA e : e.id # id), HistoryKeep, 0)
    /\ lastOp' = Op("deleteEdge", TRUE)
    /\ rt' = RtEdit("deleteEdge")
    /\ UNCHANGED <<cases, clipboard, exporting, mounted, polling>>

\* position changes that count as significant
DragMoveCheckpointing(id, pos) ==
    /\ id \in NodeIds(nodes)
    /\ pos \in FreePositions
    /\ pending' = saveToHistory
    /\ Commit([ i \in 1..Len(nodes) |->
                  IF nodes[i].id = id THEN [nodes[i] EXCEPT !.position = pos] ELSE nodes[i] ],
              edges, HistoryKeep, 0)
    /\ lastOp' = Op("dragMove", TRUE)
    /\ rt' = RtDragMove
    /\ UNCHANGED <<cases, clipboard, exporting, mounted, polling>>

\* handleNodesChangeWithHistory with `position' changes only: no checkpoint
DragMove(id, pos) ==
    /\ id \in NodeIds(nodes)
    /\ pos \in FreePositions
    /\ Commit([ i \in 1..Len(nodes) |->
                  IF nodes[i].id = id THEN [nodes[i] EXCEPT !.position = pos] ELSE nodes[i] ],
              edges, HistoryKeep, 0)
    /\ lastOp' = Op("dragMove", TRUE)
    /\ rt' = RtDragMove
    /\ UNCHANGED <<pending, cases, clipboard, exporting, mounted, polling>>

onNodeDragStop ==
    /\ pending' = saveToHistory
    /\ lastOp' = Op("dragStop", TRUE)
    /\ rt' = RtDragStop
    /\ UNCHANGED <<nodes, edges, history, cursor, canUndo, canRedo, cases, clipboard, nextId,
                   exporting, mounted, polling>>

\* a drag ends while the history is within the bound of the model
DragStop == HistRoom /\ onNodeDragStop

----------------------------------------------------------------------------
(* Documents: the content of a diagram.json file or of a loadData payload. *)
(* parses: JSON.parse succeeds; nodesArr, edgesArr: the field is an array; *)
(* edgesOk: every element of edges is an object.                           *)

Doc(ns, es) ==
    [parses |-> TRUE, nodesArr |-> TRUE, edgesArr |-> TRUE, edgesOk |-> TRUE,
     nodes |-> ns, edges |-> es]

FileN1 == Node(91, "text-message", [x |-> 100, y |-> 100], TRUE, <<>>)
FileN1u == Node(91, NoType, [x |-> 100, y |-> 100], TRUE, <<>>)
FileN2 == Node(92, "conditional-path", [x |-> 400, y |-> 100], TRUE, << [id |-> 81, case |-> [id |-> 71, value |-> "Allowed"]] >>)
FileE12 == Edge(95, 91, 92, "deletable", Absent, Absent)
FileE13 == Edge(96, 91, 93, "deletable", Absent, Absent)
FileE21 == Edge(Absent, 92, 91, NoType, 81, Absent)

FileNodeLists == { <<>>, <<FileN1>>, <<FileN1u, FileN2>>, <<FileN1, FileN2>>, <<FileN1, FileN1>> }

FileEdgeLists == { <<>>, <<FileE12>>, <<FileE13>>, <<FileE21>>, <<FileE12, FileE13>>,
                   <<FileE21, FileE12>> }

GoodDocs == { Doc(ns, es) : ns \in FileNodeLists, es \in FileEdgeLists }

BadDocs ==
    { NoDoc,
      [Doc(<<>>, <<FileE12>>) EXCEPT !.nodesArr = FALSE],
      [Doc(<<FileN1>>, <<>>) EXCEPT !.edgesArr = FALSE],
      [Doc(<<FileN1>>, <<>>) EXCEPT !.edgesOk = FALSE] }

Docs == GoodDocs \cup BadDocs

SmallDocs ==
    { Doc(<<>>, <<>>), Doc(<<FileN1u, FileN2>>, <<FileE12, FileE13>>),
      Doc(<<FileN1, FileN2>>, <<FileE21, FileE12>>) } \cup BadDocs

----------------------------------------------------------------------------
(* JSON export and import *)

\* only the nodes are tested
isDiagramNodesOnly(d) == d.nodesArr

\* Array.isArray(data.nodes) && Array.isArray(data.edges)
isDiagram(d) == d.nodesArr /\ d.edgesArr

\* handleDownload: JSON.stringify({nodes: getNodes(), edges: getEdges()});
\* a field that is undefined is left out, which is how it already reads here
toJson(ns, es) == Doc(ns, es)

EmptyId == -1                          \* the edge id ''

\* the type of a node is overwritten, not defaulted
sanitizeNodeDefault(n) == [n EXCEPT !.type = "default"]

sanitizeNode(n) == [n EXCEPT !.type = IF n.type = NoType THEN "default" ELSE n.type]

sanitizeEdge(e) ==
    Edge(IF e.id = Absent THEN EmptyId ELSE e.id, e.source, e.target,
         IF e.type = NoType THEN "deletable" ELSE e.type, Absent, Absent)

sanitizedNodes(d) == [ i \in 1..Len(d.nodes) |-> sanitizeNode(d.nodes[i]) ]

\* an edge is kept when its source is known
edgeValidSourceOnly(d, e) == e.source \in NodeIds(sanitizedNodes(d))

edgeValid(d, e) == e.source \in NodeIds(sanitizedNodes(d)) /\ e.target \in NodeIds(sanitizedNodes(d))

sanitizedEdges(d) ==
    SelectSeq([ i \in 1..Len(d.edges) |-> sanitizeEdge(d.edges[i]) ], LAMBDA e : edgeValid(d, e))

skippedEdges(d) == Len(d.edges) - Len(sanitizedEdges(d))

Alert(op, ok, text, n, d) == [Op(op, ok) EXCEPT !.alert = text, !.n = n, !.doc = d]

\* handleUpload of the sidebar, once the file has been read
UploadSidebar(d) ==
    /\ IF d.parses /\ isDiagram(d) /\ d.edgesOk
       THEN /\ HistRoom
            /\ pending' = saveToHistory
            /\ Commit(sanitizedNodes(d), sanitizedEdges(d), HistoryKeep, 0)
            /\ lastOp' = IF skippedEdges(d) > 0
                         THEN Alert("uploadSidebar", TRUE, "skipped", skippedEdges(d), d)
                         ELSE Alert("uploadSidebar", TRUE, "none", 0, d)
            /\ rt' = RtEdit("import")
       ELSE /\ lastOp' = IF d.parses /\ ~isDiagram(d)
                         THEN Alert("uploadSidebar", FALSE, "invalidFormat", 0, NoDoc)
                         ELSE Alert("uploadSidebar", FALSE, "parseFailed", 0, NoDoc)
            /\ UNCHANGED <<nodes, edges, history, cursor, canUndo, canRedo, pending,
                           nextId, rt>>
    /\ UNCHANGED <<cases, clipboard, exporting, mounted, polling>>

\* handleUpload of the navigation bar: the lists go to the flow as they are
UploadNavBar(d) ==
    /\ d.edgesOk \/ ~(d.parses /\ isDiagram(d))
    /\ IF d.parses /\ isDiagram(d)
       THEN /\ HistRoom
            /\ pending' = saveToHistory
            /\ Commit(d.nodes, d.edges, HistoryKeep, 0)
            /\ lastOp' = Alert("uploadNavBar", TRUE, "none", 0, d)
            /\ rt' = RtEdit("import")
       ELSE /\ lastOp' = IF d.parses
                         THEN Alert("uploadNavBar", FALSE, "invalidFormat", 0, NoDoc)
                         ELSE Alert("uploadNavBar", FALSE, "parseFailed", 0, NoDoc)
            /\ UNCHANGED <<nodes, edges, history, cursor, canUndo, canRedo, pending,
                           nextId, rt>>
    /\ UNCHANGED <<cases, clipboard, exporting, mounted, polling>>

Download ==
    /\ clipboard' = toJson(nodes, edges)
    /\ lastOp' = Op("download", TRUE)
    /\ UNCHANGED <<nodes, edges, history, cursor, canUndo, canRedo, pending, cases, nextId, rt,
                   exporting, mounted, polling>>

\* the page is opened again: a new editor mounts, the files written by
\* handleDownload are still there
Reopen ==
    /\ nextId + 2 <= MaxId
    /\ nodes' = createDefaultNodes(nextId)
    /\ edges' = createDefaultEdges(createDefaultNodes(nextId), nextId + 2)
    /\ ApplyHistory(HistoryInit(nodes', edges'))
    /\ pending' = FALSE
    /\ cases' = initialCases
    /\ nextId' = nextId + 3
    /\ lastOp' = Op("mount", TRUE)
    /\ rt' = RtIdle
    /\ exporting' = NoExport
    /\ mounted' = TRUE
    /\ polling' = {}
    /\ UNCHANGED clipboard

----------------------------------------------------------------------------
(* Host bridge: handleMessage *)

Origins == {"http://localhost:5173", "http://evil.example"}

allowedOrigins == {"http://localhost:5173", "http://localhost:3000", "https://yourdomain.com"}

\* a message received: which handler saw it, from where, of which type
Received(op, ok, origin, type) == [Op(op, ok) EXCEPT !.origin = origin, !.type = type]

\* the answer goes to any origin
ReplyWildcard(ok, text, d, origin) ==
    [Received("loadData", ok, origin, "loadData") EXCEPT
        !.reply = text, !.doc = d, !.k = 1, !.to = "*"]

\* window.parent.postMessage({type: 'dataLoaded', success, ...}, event.origin)
Reply(ok, text, d, origin) ==
    [Received("loadData", ok, origin, "loadData") EXCEPT
        !.reply = text, !.doc = d, !.k = 1, !.to = origin]

\* handleMessage behind its test of the origin
processMessage(origin, type, d) ==
    /\ IF type # "loadData"
       THEN /\ lastOp' = Received("message", TRUE, origin, type)
            /\ UNCHANGED <<nodes, edges, history, cursor, canUndo, canRedo, nextId, rt>>
       ELSE IF ~d.parses
       THEN /\ lastOp' = Reply(FALSE, "failure", NoDoc, origin)
            /\ UNCHANGED <<nodes, edges, history, cursor, canUndo, canRedo, nextId, rt>>
       ELSE LET ns == IF d.nodesArr THEN d.nodes ELSE nodes
                threw == d.edgesArr /\ ~d.edgesOk
                es == IF d.edgesArr /\ d.edgesOk THEN d.edges ELSE edges
            IN  /\ Commit(ns, es, HistoryKeep, 0)
                /\ lastOp' = IF threw THEN Reply(FALSE, "failure", d, origin)
                                      ELSE Reply(TRUE, "success", d, origin)
                /\ rt' = RtIdle
    /\ UNCHANGED <<pending, cases, clipboard, exporting, mounted, polling>>

\* handleMessage without the test of the origin
handleMessageAnyOrigin(origin, type, d) == processMessage(origin, type, d)

handleMessage(origin, type, d) ==
    IF origin \notin allowedOrigins
    THEN /\ lastOp' = Received("message", FALSE, origin, type)
         /\ UNCHANGED <<nodes, edges, history, cursor, canUndo, canRedo, nextId, rt,
                        pending, cases, clipboard, exporting, mounted, polling>>
    ELSE processMessage(origin, type, d)

----------------------------------------------------------------------------
(* The Save button of the page *)

Clock == {1, 2}                     \* values Date.now() returns

\* the entries handleSave builds with nodes.map and edges.map: an edge
\* entry has id, source, target and type, the handles are left out
savedNode(n) == Node(n.id, n.type, n.position, n.deletable, n.paths)

\* an edge entry without its type
savedEdgeNoType(e) == Edge(e.id, e.source, e.target, NoType, Absent, Absent)

savedEdge(e) == Edge(e.id, e.source, e.target, e.type, Absent, Absent)

drawingData(ns, es) ==
    Doc([ i \in 1..Len(ns) |-> savedNode(ns[i]) ], [ i \in 1..Len(es) |-> savedEdge(es[i]) ])

targetOrigins == {"http://localhost:5173", "http://localhost:8080", "http://localhost:3000", "*"}

\* handleSave at time now: the payload goes to every target origin as a
\* saveDrawing message (lastOp.k messages, timestamp lastOp.n)
Save(now) ==
    /\ lastOp' = [Op("save", TRUE) EXCEPT !.doc = drawingData(nodes, edges), !.n = now,
                                          !.type = "saveDrawing",
                                          !.k = Cardinality(targetOrigins)]
    /\ UNCHANGED <<nodes, edges, history, cursor, canUndo, canRedo, pending, cases,
                   clipboard, nextId, rt, exporting, mounted, polling>>

----------------------------------------------------------------------------

(* SVG export: exportAsSvg runs in three steps separated by its awaits.   *)
(* The edges of the model carry no `animated' property, so the list set   *)
(* at the start of the export equals the edges of the closure.            *)

\* handleExport and exportAsSvg up to the first await: the closure keeps
\* the edges of this render (originalEdges and edges)
ExportStart ==
    /\ ~exporting.on
    /\ exporting' = [on |-> TRUE, edges |-> edges]
    /\ UNCHANGED <<mounted, polling>>
    /\ lastOp' = Op("exportStart", TRUE)
    /\ UNCHANGED <<nodes, edges, history, cursor, canUndo, canRedo, pending, cases,
                   clipboard, nextId, rt>>

\* toSvg or the download throws: the catch block sets the edges of the
\* closure
ExportFail ==
    /\ exporting.on
    /\ edges' = exporting.edges
    /\ exporting' = NoExport
    /\ UNCHANGED <<mounted, polling>>
    /\ lastOp' = Op("exportFailed", FALSE)
    /\ rt' = RtIdle
    /\ UNCHANGED <<nodes, history, cursor, canUndo, canRedo, pending, cases, clipboard, nextId>>

\* the file is downloaded: step 9 sets originalEdges
ExportDone ==
    /\ exporting.on
    /\ edges' = exporting.edges
    /\ exporting' = NoExport
    /\ UNCHANGED <<mounted, polling>>
    /\ lastOp' = Op("exportDone", TRUE)
    /\ rt' = RtIdle
    /\ UNCHANGED <<nodes, history, cursor, canUndo, canRedo, pending, cases, clipboard, nextId>>

----------------------------------------------------------------------------

(* Property panel of a conditional path node *)

\* updateData of the panel: the node's data is replaced
updateData(ns, id, paths) ==
    [ i \in 1..Len(ns) |-> IF ns[i].id = id THEN [ns[i] EXCEPT !.paths = paths] ELSE ns[i] ]

\* handleAddPath that does not look the selected case up in the catalog
AddPathUncatalogued(id, c) ==
    /\ id \in NodeIds(nodes)
    /\ NodeOf(nodes, id).type = "conditional-path"
    /\ HistRoom
    /\ pending' = saveToHistory
    /\ Commit(updateData(nodes, id,
                          Append(NodeOf(nodes, id).paths,
                                 [id |-> nextId, case |-> [id |-> c, value |-> "Allowed"]])),
              edges, HistoryKeep, 1)
    /\ lastOp' = [Op("addPath", TRUE) EXCEPT !.n = c, !.k = id]
    /\ rt' = RtIdle
    /\ UNCHANGED <<cases, clipboard, exporting, mounted, polling>>

\* handleAddPath that does not look for a path of the selected case
AddPathDuplicating(id, c) ==
    /\ id \in NodeIds(nodes)
    /\ NodeOf(nodes, id).type = "conditional-path"
    /\ LET found == { x \in cases : x.id = c }
       IN  IF found # {}
           THEN /\ HistRoom
                /\ pending' = saveToHistory
                /\ Commit(updateData(nodes, id,
                                     Append(NodeOf(nodes, id).paths,
                                            [id |-> nextId,
                                             case |-> CHOOSE x \in found : TRUE])),
                          edges, HistoryKeep, 1)
                /\ lastOp' = [Op("addPath", TRUE) EXCEPT !.n = c, !.k = id]
                /\ rt' = RtIdle
           ELSE /\ lastOp' = [Op("addPath", FALSE) EXCEPT !.n = c, !.k = id]
                /\ UNCHANGED <<nodes, edges, history, cursor, canUndo, canRedo, pending,
                               nextId, rt>>
    /\ UNCHANGED <<cases, clipboard, exporting, mounted, polling>>

\* handleAddPath with newPathCase = c
\* (lastOp.n) in the panel of node id (lastOp.k); lastOp.ok tells whether a
\* path was added
AddPath(id, c) ==
    /\ id \in NodeIds(nodes)
    /\ NodeOf(nodes, id).type = "conditional-path"
    /\ LET paths == NodeOf(nodes, id).paths
           found == { x \in cases : x.id = c }
       IN  IF found # {} /\ ~ \E i \in 1..Len(paths) : paths[i].case.id = c
           THEN /\ HistRoom
                /\ pending' = saveToHistory
                /\ LET selectedCase == CHOOSE x \in found : TRUE
                   IN  Commit(updateData(nodes, id,
                                         Append(paths, [id |-> nextId,
                                                        case |-> [id |-> selectedCase.id,
                                                                  value |-> selectedCase.value]])),
                              edges, HistoryKeep, 1)
                /\ lastOp' = [Op("addPath", TRUE) EXCEPT !.n = c, !.k = id]
                /\ rt' = RtIdle
           ELSE /\ lastOp' = [Op("addPath", FALSE) EXCEPT !.n = c, !.k = id]
                /\ UNCHANGED <<nodes, edges, history, cursor, canUndo, canRedo, pending,
                               nextId, rt>>
    /\ UNCHANGED <<cases, clipboard, exporting, mounted, polling>>

\* the paths of a node without the path pathId
pathRemoved(paths, pathId) == SelectSeq(paths, LAMBDA q : q.id # pathId)

\* handleRemovePath that leaves the edges of the removed handle
RemovePathKeepingEdges(id, pathId) ==
    /\ id \in NodeIds(nodes)
    /\ NodeOf(nodes, id).type = "conditional-path"
    /\ \E i \in 1..Len(NodeOf(nodes, id).paths) : NodeOf(nodes, id).paths[i].id = pathId
    /\ HistRoom
    /\ pending' = saveToHistory
    /\ Commit(updateData(nodes, id, pathRemoved(NodeOf(nodes, id).paths, pathId)),
              edges, HistoryKeep, 0)
    /\ lastOp' = [Op("removePath", TRUE) EXCEPT !.n = pathId, !.k = 0]
    /\ rt' = RtIdle
    /\ UNCHANGED <<cases, clipboard, exporting, mounted, polling>>

\* handleRemovePath(pathId) of the panel of node id (the button of one of
\* the node's paths): the path leaves the node's data and setEdges drops
\* the edges of its handle.  lastOp.n is the path, lastOp.k the number of
\* edges dropped
RemovePath(id, pathId) ==
    /\ id \in NodeIds(nodes)
    /\ NodeOf(nodes, id).type = "conditional-path"
    /\ \E i \in 1..Len(NodeOf(nodes, id).paths) : NodeOf(nodes, id).paths[i].id = pathId
    /\ HistRoom
    /\ pending' = saveToHistory
    /\ LET kept == SelectSeq(edges, LAMBDA e : e.sourceHandle # pathId)
       IN  /\ Commit(updateData(nodes, id, pathRemoved(NodeOf(nodes, id).paths, pathId)),
                     kept, HistoryKeep, 0)
           /\ lastOp' = [Op("removePath", TRUE) EXCEPT
                             !.n = pathId, !.k = Len(edges) - Len(kept)]
    /\ rt' = RtIdle
    /\ UNCHANGED <<cases, clipboard, exporting, mounted, polling>>

\* paths without the ones of a case
pathsWithout(ns, id) ==
    [ i \in 1..Len(ns) |->
        [ns[i] EXCEPT !.paths = SelectSeq(ns[i].paths, LAMBDA q : q.case.id # id)] ]

\* removeCase that also removes the paths of the case from the nodes
removeCaseCascading(id) ==
    /\ \E x \in cases : x.id = id
    /\ cases' = { x \in cases : x.id # id }
    /\ nodes' = pathsWithout(nodes, id)
    /\ lastOp' = [Op("removeCase", TRUE) EXCEPT !.n = id]
    /\ UNCHANGED <<edges, history, cursor, canUndo, canRedo, pending, clipboard, nextId,
                   exporting, rt, mounted, polling>>

\* removeCase of the case store (the Delete button of a case in the
\* attributes panel)
removeCase(id) ==
    /\ \E x \in cases : x.id = id
    /\ cases' = { x \in cases : x.id # id }
    /\ lastOp' = [Op("removeCase", TRUE) EXCEPT !.n = id]
    /\ UNCHANGED <<nodes, edges, history, cursor, canUndo, canRedo, pending, clipboard, nextId,
                   exporting, rt, mounted, polling>>

----------------------------------------------------------------------------
(* Teardown and the measurement poll *)

\* an unmount whose cleanup leaves the timer of saveToHistory alone
unmountNoCleanup ==
    /\ mounted
    /\ mounted' = FALSE
    /\ lastOp' = Op("unmount", TRUE)
    /\ UNCHANGED <<nodes, edges, history, cursor, canUndo, canRedo, pending, cases, clipboard,
                   nextId, exporting, polling, rt>>

\* FlowBuilderModule unmounts: the cleanup effects remove the message
\* listener and clear the timer of saveToHistory
unmount ==
    /\ mounted
    /\ mounted' = FALSE
    /\ pending' = FALSE
    /\ lastOp' = Op("unmount", TRUE)
    /\ UNCHANGED <<nodes, edges, history, cursor, canUndo, canRedo, cases, clipboard,
                   nextId, exporting, polling, rt>>

\* the measured field of a node, as the observer records it
Measured(measured) == IF measured THEN "measured" ELSE "unmeasured"

autoAdjustNodeUnchecked(measured) == "adjusted"

\* useNodeAutoAdjust: the adjuster works on the measured width and height
\* of the node it is given and defers, polling again, while the node has
\* none.  A node that overlaps no other stays where it is
autoAdjustNode(measured) == IF measured THEN "adjusted" ELSE "deferred"

\* the polls scheduled once the adjuster has answered for node id: a
\* deferred node gets a poll unless one of it is scheduled already
Repoll(id, answer) ==
    IF answer = "deferred" /\ ~\E p \in polling : p.id = id
        THEN polling \cup {[id |-> id, tries |-> 0]}
        ELSE polling

\* handleNodesChange with a change of type 'dimensions' of node id: the
\* node found by getNodes() is handed to the adjuster
dimensionsChange(id, measured) ==
    /\ id \in NodeIds(nodes)
    /\ polling' = Repoll(id, autoAdjustNode(measured))
    /\ lastOp' = [Op("dimensions", TRUE) EXCEPT
                      !.n = id, !.type = Measured(measured),
                      !.reply = autoAdjustNode(measured)]
    /\ UNCHANGED <<nodes, edges, history, cursor, canUndo, canRedo, pending, cases, clipboard,
                   nextId, exporting, mounted, rt>>

\* onNodeDragStop with the node it is given: the checkpoint is requested and
\* the node is handed to the adjuster
dragStopAdjust(id, measured) ==
    /\ id \in NodeIds(nodes)
    /\ HistRoom
    /\ pending' = saveToHistory
    /\ polling' = Repoll(id, autoAdjustNode(measured))
    /\ lastOp' = [Op("dragStop", TRUE) EXCEPT
                      !.n = id, !.type = Measured(measured),
                      !.reply = autoAdjustNode(measured)]
    /\ rt' = RtDragStop
    /\ UNCHANGED <<nodes, edges, history, cursor, canUndo, canRedo, cases, clipboard, nextId,
                   exporting, mounted>>

\* the setTimeout callback of handleAutoAdjustNodeAfterNodeMeasured(id):
\* it looks the node up; a node that is not measured yet is polled again
\* (measured = FALSE), a measured one goes to autoAdjustNode, which leaves
\* a node that overlaps no other where it is.  lastOp.k tells whether the
\* callback ran on a mounted editor.  The code counts no retries: tries is
\* the number of times the poll was scheduled again, capped by MaxRetries
pollCallback(id, measured) ==
    \E p \in polling :
        LET found == id \in NodeIds(nodes)
            again == found /\ ~measured
        IN  /\ p.id = id
            /\ again => p.tries < MaxRetries
            /\ polling' = IF again
                             THEN (polling \ {p}) \cup {[p EXCEPT !.tries = @ + 1]}
                             ELSE polling \ {p}
            /\ lastOp' = [Op("poll", found /\ measured) EXCEPT
                              !.n = id, !.k = IF mounted THEN 1 ELSE 0,
                              !.type = Measured(measured),
                              !.reply = IF found /\ measured
                                            THEN autoAdjustNode(measured) ELSE "none"]
            /\ UNCHANGED <<nodes, edges, history, cursor, canUndo, canRedo, pending, cases,
                           clipboard, nextId, exporting, mounted, rt>>

----------------------------------------------------------------------------

(* The editor *)

NodeTypes == {"text-message", "conditional-path"}

AllIds == 1..MaxId \cup FileIds

\* the ids a path may have: the ones of the flows of the host and nanoid()s
PathIds == 1..MaxId \cup {81, 82}

\* a flow the host may send: a start node, a conditional path with two
\* paths, a message and an end node, not connected yet
HostFlow ==
    Doc(<< Node(93, "start", [x |-> 100, y |-> 100], FALSE, <<>>),
           Node(91, "conditional-path", [x |-> 250, y |-> 300], TRUE,
                << [id |-> 81, case |-> [id |-> 71, value |-> "Allowed"]],
                   [id |-> 82, case |-> [id |-> 72, value |-> "Denied"]] >>),
           Node(92, "text-message", [x |-> 250, y |-> 100], TRUE, <<>>),
           Node(94, "end", [x |-> 400, y |-> 100], FALSE, <<>>) >>, <<>>)

\* the canvas and the undo and redo buttons; the connections drawn are the
\* ones the validator accepts
EditNext ==
    \/ TimerFire
    \/ Undo
    \/ Redo
    \/ \E c \in Connections : isValidConnection(c, nodes, edges) /\ Connect(c)
    \/ \E p \in Positions : AddNode("text-message", p)
    \/ \E id \in AllIds : DeleteNode(id)
    \/ \E id \in AllIds : DeleteEdge(id)
    \/ \E p \in Positions : DragMove(nodes[1].id, p)
    \/ DragStop

Next == EditNext

Spec == Init /\ [][Next]_vars

\* connections proposed and edges deleted on the default flow or on a flow
\* the host has sent at start
ConnNext ==
    \/ lastOp.op = "mount" /\ handleMessage("http://localhost:5173", "loadData", HostFlow)
    \/ \E c \in Connections : Connect(c)
    \/ \E id \in AllIds : DeleteEdge(id)

SpecConn == Init /\ [][ConnNext]_vars

\* documents: files and host messages reach an editor whose nodes and
\* edges are otherwise only deleted
IONext ==
    \/ TimerFire
    \/ Undo
    \/ Redo
    \/ \E id \in AllIds : DeleteNode(id)
    \/ \E id \in AllIds : DeleteEdge(id)
    \/ \E d \in SmallDocs : UploadSidebar(d)
    \/ \E d \in SmallDocs : UploadNavBar(d)
    \/ \E d \in SmallDocs : handleMessage("http://localhost:5173", "loadData", d)

SpecIO == Init /\ [][IONext]_vars

\* the host bridge: messages of any origin and type reach an editor whose
\* nodes and edges are otherwise only deleted
MessageTypes == {"loadData", "ping"}

HostNext ==
    \/ TimerFire
    \/ Undo
    \/ Redo
    \/ \E id \in AllIds : DeleteNode(id)
    \/ \E id \in AllIds : DeleteEdge(id)
    \/ \E o \in Origins, t \in MessageTypes, d \in SmallDocs : handleMessage(o, t, d)

SpecHost == Init /\ [][HostNext]_vars

\* the Save button on a flow whose nodes are being connected
SaveNext ==
    \/ lastOp.op = "mount" /\ handleMessage("http://localhost:5173", "loadData", HostFlow)
    \/ \E c \in Connections : isValidConnection(c, nodes, edges) /\ Connect(c)
    \/ TimerFire
    \/ \E now \in Clock : Save(now)

SpecSave == Init /\ [][SaveNext]_vars

\* an export runs while the canvas stays in use
ExportNext ==
    \/ ExportStart
    \/ ExportFail
    \/ ExportDone
    \/ \E c \in Connections : isValidConnection(c, nodes, edges) /\ Connect(c)
    \/ \E id \in AllIds : DeleteEdge(id)
    \/ TimerFire
    \/ Undo

SpecExport == Init /\ [][ExportNext]_vars

\* a long session: drags end and checkpoints are taken without the bound
\* of the model on the history; the default edge can be deleted at the
\* start and steps can be undone
LongNext ==
    \/ timerCallback
    \/ onNodeDragStop
    \/ \E id \in AllIds : DeleteEdge(id)
    \/ Undo

SpecLong == Init /\ [][LongNext]_vars

\* the attributes panel and the property panel of a conditional path on
\* a flow the host has sent
PanelNext ==
    \/ lastOp.op = "mount" /\ handleMessage("http://localhost:5173", "loadData", HostFlow)
    \/ \E id \in CaseIds : removeCase(id)
    \/ \E id \in AllIds, c \in CaseIds : AddPath(id, c)
    \/ \E p \in Positions : AddNode("conditional-path", p)
    \/ \E c \in Connections : isValidConnection(c, nodes, edges) /\ Connect(c)

SpecPanel == Init /\ [][PanelNext]_vars

\* the paths of the conditional node of a flow the host has sent are
\* added, connected and removed
PathsNext ==
    \/ lastOp.op = "mount" /\ handleMessage("http://localhost:5173", "loadData", HostFlow)
    \/ \E id \in AllIds, c \in CaseIds : AddPath(id, c)
    \/ \E id \in AllIds, pathId \in PathIds : RemovePath(id, pathId)
    \/ \E c \in Connections : isValidConnection(c, nodes, edges) /\ Connect(c)

SpecPaths == Init /\ [][PathsNext]_vars

\* the editor is used and then unmounted; timers that are still scheduled
\* run afterwards.  The polls here find their node measured or gone
TeardownNext ==
    \/ mounted /\ \E p \in Positions : AddNode("text-message", p)
    \/ mounted /\ \E id \in AllIds : DeleteNode(id)
    \/ mounted /\ \E id \in AllIds : DeleteEdge(id)
    \/ mounted /\ \E c \in Connections : isValidConnection(c, nodes, edges) /\ Connect(c)
    \/ mounted /\ Undo
    \/ TimerFire
    \/ \E id \in AllIds : pollCallback(id, TRUE)
    \/ unmount

SpecTeardown == Init /\ [][TeardownNext]_vars

\* nodes are added, resized, dragged and deleted while their measurement
\* polls run; a handler finds its node measured or not yet measured
PollNext ==
    \/ \E p \in Positions : AddNode("text-message", p)
    \/ \E id \in AllIds : DeleteNode(id)
    \/ \E id \in AllIds, measured \in BOOLEAN : pollCallback(id, measured)
    \/ \E id \in AllIds, measured \in BOOLEAN : dimensionsChange(id, measured)
    \/ \E measured \in BOOLEAN : dragStopAdjust(nodes[Len(nodes)].id, measured)

SpecPoll == Init /\ [][PollNext]_vars

\* one file is written by an editor and read by a newly opened one
FreshNext ==
    \/ clipboard = NoDoc /\ \E id \in AllIds : DeleteEdge(id)
    \/ clipboard = NoDoc /\ \E c \in Connections : Connect(c)
    \/ TimerFire
    \/ Undo
    \/ Redo
    \/ clipboard = NoDoc /\ Download
    \/ lastOp.op = "download" /\ Reopen
    \/ lastOp.op = "mount" /\ \E d \in Docs \cup {clipboard} : UploadSidebar(d)
    \/ lastOp.op = "mount" /\ \E d \in Docs \cup {clipboard} : UploadNavBar(d)

SpecFresh == Init /\ [][FreshNext]_vars

----------------------------------------------------------------------------
(* Properties *)

\* C1: history round trip.  From a recorded graph A, one mutation (of any
\* kind) is made and checkpointed as B; undo() then restores exactly A, and
\* a following redo() restores exactly B.
HistoryRoundTrip ==
    /\ rt.phase = "undone" => Snapshot(nodes, edges) = rt.a
    /\ rt.phase = "redone" => Snapshot(nodes, edges) = rt.b

\* C2: redo truncation.  After an undo to A and a new edit checkpointed as
\* C, canRedo is false, C is the last snapshot, nothing that followed the
\* cursor before the checkpoint is left, and redo() changes nothing.
RedoTruncation ==
    [][ /\ (lastOp'.op = "checkpoint" /\ rt'.phase = "forkSaved") =>
              /\ ~canRedo'
              /\ cursor' = Len(history') - 1
              /\ history'[Len(history')] = Snapshot(nodes', edges')
              /\ Len(history') <= cursor + 2
        /\ (lastOp'.op = "redo" /\ rt.phase = "forkSaved") =>
              /\ ~lastOp'.ok
              /\ UNCHANGED <<nodes, edges, history, cursor, canUndo, canRedo>>
      ]_vars

\* redo() has been tried after the new edit was checkpointed
RedoTruncationWitness ==
    /\ rt.phase = "forkSaved"
    /\ lastOp.op = "redo"
    /\ Len(history) = 2

\* C3: undo and redo at the ends.  undo() with the cursor at 0 changes
\* neither the graph, the snapshots nor the cursor and leaves canUndo
\* false; redo() with the cursor at the last index changes none of them
\* and leaves canRedo false.
UndoRedoBounds ==
    [][ /\ (lastOp'.op = "undo" /\ cursor = 0) =>
              /\ UNCHANGED <<nodes, edges, history, cursor>>
              /\ ~canUndo'
        /\ (lastOp'.op = "redo" /\ cursor = Len(history) - 1) =>
              /\ UNCHANGED <<nodes, edges, history, cursor>>
              /\ ~canRedo'
      ]_vars

\* undo() was called at cursor 0 while the graph had moved on from the
\* only snapshot
UndoRedoBoundsWitness ==
    /\ lastOp.op = "undo"
    /\ ~lastOp.ok
    /\ cursor = 0
    /\ history[1] # Snapshot(nodes, edges)

\* C4: referential integrity.  The source and the target of every edge are
\* ids of nodes of the graph, in every state reached by deletions, JSON
\* imports, loadData messages, undo and redo.
ReferentialIntegrity ==
    \A i \in 1..Len(edges) :
        edges[i].source \in NodeIds(nodes) /\ edges[i].target \in NodeIds(nodes)

\* C5: cascading delete.  Deleting node N removes, in the same step, the
\* edges whose source or target is N and no other edge.
CascadingDelete ==
    [][ lastOp'.op = "deleteNode" =>
            /\ \A e \in Range(edges) :
                   (e \in Range(edges')) = (e.source # lastOp'.n /\ e.target # lastOp'.n)
            /\ Range(edges') \subseteq Range(edges)
            /\ lastOp'.n \notin NodeIds(nodes')
      ]_vars

\* a node was deleted with an edge of its own while another edge stayed
CascadingDeleteWitness ==
    /\ lastOp.op = "deleteNode"
    /\ lastOp.k > 0
    /\ Len(edges) > 0

\* the ids of the nodes of a document, and its edges that join two of them
ImportedIds(d) == { d.nodes[i].id : i \in 1..Len(d.nodes) }

Resolves(d, e) == e.source \in ImportedIds(d) /\ e.target \in ImportedIds(d)

Resolving(d) == { i \in 1..Len(d.edges) : Resolves(d, d.edges[i]) }

\* C6: import with dangling edges.  After the sidebar has imported a
\* document with a nodes and an edges array, every node of the document is
\* in the graph, the edges of the graph are the edges of the document whose
\* source and target are both ids of its nodes, and the number of the
\* other edges is reported, unless it is 0.
ImportDanglingEdges ==
    (lastOp.op = "uploadSidebar" /\ lastOp.ok /\ Len(lastOp.doc.nodes) > 0) =>
        LET d == lastOp.doc
        IN  /\ Len(nodes) = Len(d.nodes)
            /\ \A i \in 1..Len(nodes) :
                   /\ nodes[i].id = d.nodes[i].id
                   /\ nodes[i].position = d.nodes[i].position
                   /\ nodes[i].paths = d.nodes[i].paths
                   /\ d.nodes[i].type # NoType => nodes[i].type = d.nodes[i].type
            /\ Len(edges) = Cardinality(Resolving(d))
            /\ \A j \in 1..Len(edges) :
                   \E i \in Resolving(d) :
                       /\ edges[j].source = d.edges[i].source
                       /\ edges[j].target = d.edges[i].target
            /\ \A i \in Resolving(d) :
                   \E j \in 1..Len(edges) :
                       /\ edges[j].source = d.edges[i].source
                       /\ edges[j].target = d.edges[i].target
            /\ lastOp.n = Len(d.edges) - Cardinality(Resolving(d))
            /\ lastOp.alert = (IF lastOp.n > 0 THEN "skipped" ELSE "none")

\* a document was imported of which one edge was kept and one dropped
ImportDanglingEdgesWitness ==
    /\ lastOp.op = "uploadSidebar"
    /\ lastOp.ok
    /\ lastOp.alert = "skipped"
    /\ lastOp.n = 1
    /\ Len(edges) = 1
    /\ Len(nodes) = 2

\* C7: import rejection.  A document that does not parse, or whose nodes
\* or edges is not an array, is never imported: the import that refuses a
\* document leaves nodes, edges and history as they were and shows an
\* alert, and a document that is imported parses and has both arrays.
ImportRejection ==
    [][ lastOp'.op \in {"uploadSidebar", "uploadNavBar"} =>
            IF lastOp'.ok
            THEN lastOp'.doc.parses /\ lastOp'.doc.nodesArr /\ lastOp'.doc.edgesArr
            ELSE /\ UNCHANGED <<nodes, edges, history, cursor, canUndo, canRedo, pending>>
                 /\ lastOp'.alert \in {"invalidFormat", "parseFailed"}
      ]_vars

\* the sidebar refused a document while the history held more than the
\* initial snapshot
ImportRejectionWitness ==
    /\ lastOp.op = "uploadSidebar"
    /\ ~lastOp.ok
    /\ lastOp.alert = "invalidFormat"
    /\ Len(history) > 1

\* a start node at (100,100) and an end node at (400,100) joined by one edge
StartEndGraph(d) ==
    /\ Len(d.nodes) = 2
    /\ d.nodes[1].type = "start" /\ d.nodes[1].position = [x |-> 100, y |-> 100]
    /\ d.nodes[2].type = "end" /\ d.nodes[2].position = [x |-> 400, y |-> 100]
    /\ Len(d.edges) = 1
    /\ d.edges[1].source = d.nodes[1].id /\ d.edges[1].target = d.nodes[2].id

\* C8: export / import round trip.  The graph Start(100,100), End(400,100)
\* and their edge, written by handleDownload and read by the sidebar of a
\* newly opened editor, gives the same nodes and the same edges.
ExportImportRoundTrip ==
    (lastOp.op = "uploadSidebar" /\ lastOp.ok /\ lastOp.doc = clipboard
        /\ StartEndGraph(clipboard)) =>
            /\ nodes = clipboard.nodes
            /\ edges = clipboard.edges

\* the file of the first editor was read by a second one, which had made
\* nodes of its own
ExportImportRoundTripWitness ==
    /\ lastOp.op = "uploadSidebar"
    /\ lastOp.ok
    /\ lastOp.doc = clipboard
    /\ StartEndGraph(clipboard)
    /\ history[1].nodes # nodes
    /\ nodes[1].id = 1

\* C9: validator rejections.  A proposed connection that is a self-loop,
\* that ends at a start node or that leaves an end node is rejected: no
\* edge is made, and nodes, edges and history stay as they were.
ValidatorRejections ==
    [][ ( /\ lastOp'.op = "connect"
          /\ \/ lastOp'.n = lastOp'.k
             \/ NodeOf(nodes, lastOp'.k).type = "start"
             \/ NodeOf(nodes, lastOp'.n).type = "end" ) =>
            /\ ~lastOp'.ok
            /\ UNCHANGED <<nodes, edges, history, cursor, canUndo, canRedo, pending>>
      ]_vars

\* a connection that leaves the end node for a message node was refused
ValidatorRejectionsWitness ==
    /\ lastOp.op = "connect"
    /\ ~lastOp.ok
    /\ NodeOf(nodes, lastOp.n).type = "end"
    /\ NodeOf(nodes, lastOp.k).type = "text-message"

\* C10: handle capacity.  No two edges leave the same handle of a text
\* message node or of a conditional path node; two paths of one
\* conditional path node may each carry an edge.
HandleCapacity ==
    \A i, j \in 1..Len(edges) :
        ( /\ i # j
          /\ edges[i].source = edges[j].source
          /\ edges[i].sourceHandle = edges[j].sourceHandle
          /\ edges[i].source \in NodeIds(nodes) ) =>
            ~SingleUse(NodeOf(nodes, edges[i].source).type)

\* both paths of the conditional path node carry an edge
HandleCapacityWitness ==
    \E i, j \in 1..Len(edges) :
        /\ edges[i].source = edges[j].source
        /\ edges[i].sourceHandle # edges[j].sourceHandle
        /\ edges[i].source \in NodeIds(nodes)
        /\ NodeOf(nodes, edges[i].source).type = "conditional-path"

\* C11: origin policy.  A message whose origin is not in the allow-list
\* changes neither nodes, edges nor history and is not answered, whatever
\* its type and its payload.
OriginPolicy ==
    [][ ( /\ lastOp'.op \in {"message", "loadData"}
          /\ lastOp'.origin \notin allowedOrigins ) =>
            /\ UNCHANGED <<nodes, edges, history, cursor, canUndo, canRedo, pending>>
            /\ lastOp'.reply = "none"
            /\ lastOp'.k = 0
      ]_vars

\* a loadData message of a foreign origin arrived while the graph differed
\* from the default one and the history held two snapshots
OriginPolicyWitness ==
    /\ lastOp.op = "message"
    /\ lastOp.type = "loadData"
    /\ lastOp.origin \notin allowedOrigins
    /\ Len(history) > 1
    /\ Len(edges) = 0

\* C12: loadData reply.  Every loadData message of an allowed origin is
\* answered with one dataLoaded message sent to the origin of the sender;
\* the answer says success when the graph was replaced by the nodes and
\* the edges of the payload, and failure when the payload did not parse.
LoadDataReply ==
    [][ ( /\ lastOp'.op \in {"message", "loadData"}
          /\ lastOp'.type = "loadData"
          /\ lastOp'.origin \in allowedOrigins ) =>
            LET d == lastOp'.doc
            IN  /\ lastOp'.k = 1
                /\ lastOp'.to = lastOp'.origin
                /\ lastOp'.reply \in {"success", "failure"}
                /\ ~d.parses => lastOp'.reply = "failure"
                /\ (d.parses /\ d.nodesArr /\ d.edgesArr /\ d.edgesOk /\ Len(d.nodes) > 0) =>
                       /\ nodes' = d.nodes
                       /\ edges' = d.edges
                       /\ lastOp'.reply = "success"
      ]_vars

\* a payload with two nodes and two edges was loaded and answered
LoadDataReplyWitness ==
    /\ lastOp.op = "loadData"
    /\ lastOp.reply = "success"
    /\ lastOp.to = "http://localhost:5173"
    /\ Len(lastOp.doc.nodes) = 2
    /\ nodes = lastOp.doc.nodes
    /\ edges = lastOp.doc.edges
    /\ Len(edges) = 2


\* C13: the saveDrawing payload.  A save posts a payload with one node
\* entry per node of the graph, in order, with the node's id, type,
\* position and data, one edge entry per edge with the edge's id, source,
\* target and type, and a timestamp; nodes, edges and the history are the
\* same after the save.
SaveDrawingPayload ==
    [][ lastOp'.op = "save" =>
          LET p == lastOp'.doc IN
            /\ lastOp'.type = "saveDrawing"
            /\ lastOp'.n \in Clock
            /\ Len(p.nodes) = Len(nodes)
            /\ \A i \in 1..Len(nodes) :
                  /\ p.nodes[i].id = nodes[i].id
                  /\ p.nodes[i].type = nodes[i].type
                  /\ p.nodes[i].position = nodes[i].position
                  /\ p.nodes[i].deletable = nodes[i].deletable
                  /\ p.nodes[i].paths = nodes[i].paths
            /\ Len(p.edges) = Len(edges)
            /\ \A i \in 1..Len(edges) :
                  /\ p.edges[i].id = edges[i].id
                  /\ p.edges[i].source = edges[i].source
                  /\ p.edges[i].target = edges[i].target
                  /\ p.edges[i].type = edges[i].type
            /\ UNCHANGED <<nodes, edges, history, cursor, canUndo, canRedo, pending>> ]_vars

\* a flow of four nodes with an edge from a path of the conditional node
\* has been saved while the history holds two snapshots
SaveDrawingPayloadWitness ==
    /\ lastOp.op = "save"
    /\ Len(lastOp.doc.nodes) = 4
    /\ Len(lastOp.doc.edges) >= 1
    /\ \E i \in 1..Len(edges) : edges[i].sourceHandle # Absent /\ lastOp.doc.edges[i].id = edges[i].id
    /\ Len(history) = 2


\* C14: export failure isolation.  The step in which an SVG export fails
\* leaves the nodes, the edges, the history and the cursor as they are,
\* which is how they would be had the export not been started.
ExportFailureIsolation ==
    [][ lastOp'.op = "exportFailed" => UNCHANGED <<nodes, edges, history, cursor>> ]_vars


\* C15: availability flags.  In every state, hence after every checkpoint,
\* undo, redo and initialisation of the history, canUndo tells that the
\* cursor is above 0 and canRedo that it is below the last snapshot.
AvailabilityFlags ==
    /\ canUndo = (cursor > 0)
    /\ canRedo = (cursor < Len(history) - 1)

\* a redo has moved the cursor to the last of two snapshots: undo is
\* available, redo is not
AvailabilityFlagsWitness ==
    /\ lastOp.op = "redo"
    /\ lastOp.ok
    /\ Len(history) = 2
    /\ cursor = 1
    /\ canUndo
    /\ ~canRedo


\* C16: cursor validity.  In every state the cursor is an index of the
\* history (0 <= cursor < length), or it is -1 and the history is empty.
CursorValidity ==
    \/ cursor >= 0 /\ cursor < Len(history)
    \/ cursor = -1 /\ Len(history) = 0

\* a checkpoint has pushed a second snapshot, different from the first,
\* and put the cursor on it
CursorValidityWitness ==
    /\ lastOp.op = "checkpoint"
    /\ rt.phase = "saved"
    /\ Len(history) = 2
    /\ cursor = 1
    /\ history[1] # history[2]


\* C17: bounded history.  The history never holds more than
\* maxHistorySize (50) snapshots; a checkpoint taken with the cursor on the
\* 50th snapshot drops the oldest snapshot, appends the new one, and the
\* cursor, decremented, is on the appended snapshot.
BoundedHistory ==
    [][ /\ Len(history') <= maxHistorySize
        /\ (lastOp'.op = "checkpoint" /\ pending /\ ~pending' /\ cursor = maxHistorySize - 1) =>
              /\ history' = Append(Tail(history), Snapshot(nodes', edges'))
              /\ cursor' = maxHistorySize - 1
              /\ cursor' = Len(history') - 1
              /\ history'[cursor' + 1] = Snapshot(nodes, edges) ]_vars

\* the history is full, the snapshot with the default edge that was its
\* first element has been evicted, and the cursor is on the last snapshot
BoundedHistoryWitness ==
    /\ lastOp.op = "checkpoint"
    /\ Len(history) = maxHistorySize
    /\ cursor = maxHistorySize - 1
    /\ edges = <<>>
    /\ \A i \in 1..Len(history) : history[i].edges = <<>>


\* C18: node id uniqueness.  In every state no two nodes of the graph have
\* the same id.
NodeIdUniqueness ==
    \A i, j \in 1..Len(nodes) : i # j => nodes[i].id # nodes[j].id


\* C19: case deletion does not cascade.  Removing a case takes that case
\* out of the catalog and changes nothing else: every node keeps its
\* paths with their case id and value, and every edge stays.
CaseDeletionNoCascade ==
    [][ lastOp'.op = "removeCase" =>
          /\ cases' = { x \in cases : x.id # lastOp'.n }
          /\ UNCHANGED <<nodes, edges, history, cursor, pending>> ]_vars

\* a case has been removed while a path of a conditional node refers to
\* it and an edge leaves the handle of that path
CaseDeletionNoCascadeWitness ==
    /\ lastOp.op = "removeCase"
    /\ \E i \in 1..Len(nodes) : \E j \in 1..Len(nodes[i].paths) :
          /\ nodes[i].paths[j].case.id = lastOp.n
          /\ nodes[i].paths[j].case.value # ""
          /\ ~ \E x \in cases : x.id = lastOp.n
          /\ \E k \in 1..Len(edges) : edges[k].sourceHandle = nodes[i].paths[j].id


\* C20: restore does not checkpoint.  An undo (redo) that finds a snapshot
\* to go to leaves the history as it is and starts no timer, moves the
\* cursor one position down (up), and the graph is then the snapshot
\* under the cursor.
RestoreNoCheckpoint ==
    [][ (lastOp'.op \in {"undo", "redo"} /\ lastOp'.ok) =>
          /\ history' = history
          /\ pending' = pending
          /\ cursor' = IF lastOp'.op = "undo" THEN cursor - 1 ELSE cursor + 1
          /\ cursor' >= 0
          /\ cursor' < Len(history')
          /\ Snapshot(nodes', edges') = history'[cursor' + 1] ]_vars

\* an undo has put back the first of two different snapshots and the
\* second one is still there to redo
RestoreNoCheckpointWitness ==
    /\ lastOp.op = "undo"
    /\ lastOp.ok
    /\ Len(history) = 2
    /\ cursor = 0
    /\ history[1] # history[2]
    /\ Snapshot(nodes, edges) = history[1]


\* C21: the history is initialised once.  A step that adds or deletes a
\* node, imports a document, loads a host document, or restores a snapshot
\* by undo or redo keeps every snapshot the history holds: the history is
\* not replaced by a single new snapshot.
HistoryInitialisedOnce ==
    [][ lastOp'.op \in {"addNode", "deleteNode", "uploadSidebar", "uploadNavBar", "loadData",
                        "undo", "redo"} =>
          history' = history ]_vars


\* the kinds of edit that reach the change handlers as add or remove changes
SignificantKinds == {"addNode", "deleteNode", "deleteEdge"}

DiscreteCheckpointImmediate ==
    [][ (lastOp'.op \in {"addNode", "deleteNode", "uploadSidebar", "uploadNavBar", "loadData"}
         /\ lastOp'.ok) =>
          /\ history' = Append(SubSeq(history, 1, cursor + 1), Snapshot(nodes', edges'))
          /\ cursor' = cursor + 1
          /\ canUndo' ]_vars


\* the handlers of Spec that call saveToHistory and keep the number of nodes
CountKeepingRequests == {"deleteEdge", "connect", "dragStop"}

\* C24: debounce coalescing.  A checkpoint request that arrives while the
\* timer is pending appends nothing and leaves one timer pending; when the
\* timer fires, one snapshot, the graph at that moment, is appended behind
\* the cursor and no timer is left.  A burst of requests thus yields one
\* history entry.
DebounceCoalescing ==
    [][ /\ (lastOp'.op \in CountKeepingRequests /\ lastOp'.ok) =>
              /\ pending'
              /\ history' = history
              /\ cursor' = cursor
        /\ lastOp'.op = "checkpoint" =>
              /\ pending
              /\ ~pending'
              /\ history' = Append(SubSeq(history, 1, cursor + 1), Snapshot(nodes, edges))
              /\ cursor' = cursor + 1 ]_vars

\* the default edge was deleted and the nodes were connected again before
\* the timer fired: the two requests have made one snapshot
DebounceCoalescingWitness ==
    /\ lastOp.op = "checkpoint"
    /\ Len(history) = 2
    /\ cursor = 1
    /\ Len(history[1].edges) = 1
    /\ history[1].edges[1].id = 3
    /\ Len(history[2].edges) = 1
    /\ history[2].edges[1].id # 3
    /\ history[2].nodes = history[1].nodes


\* C25: cosmetic changes do not checkpoint.  A batch of position changes
\* (a node being dragged) starts no timer and writes no snapshot; the
\* timer is started when the drag stops.
CosmeticNoCheckpoint ==
    [][ /\ lastOp'.op = "dragMove" =>
              /\ pending' = pending
              /\ history' = history
              /\ cursor' = cursor
        /\ lastOp'.op = "dragStop" => pending' /\ history' = history ]_vars

\* a node has been moved away from its recorded position and no timer is
\* pending
CosmeticNoCheckpointWitness ==
    /\ lastOp.op = "dragMove"
    /\ ~pending
    /\ nodes[1].position # history[cursor + 1].nodes[1].position
    /\ Len(history) = 2


\* C26: pending checkpoint versus load.  A timer that is pending when a
\* loadData message replaces the graph does not fire after the load: no
\* checkpoint directly follows a load (the load itself starts no timer).
PendingCheckpointVersusLoad ==
    [][ ~ (lastOp.op = "loadData" /\ lastOp.ok /\ lastOp'.op = "checkpoint") ]_vars


\* C27: load is a checkpoint.  After a loadData message has replaced the
\* graph, the snapshot under the cursor is the loaded graph.
LoadIsCheckpoint ==
    [][ (lastOp'.op = "loadData" /\ lastOp'.ok /\ nodes' = lastOp'.doc.nodes
         /\ edges' = lastOp'.doc.edges) =>
          /\ cursor' >= 0
          /\ cursor' < Len(history')
          /\ history'[cursor' + 1] = Snapshot(nodes', edges') ]_vars


\* C28: atomic load.  A loadData message whose payload parses either puts
\* both lists of the payload into the graph or leaves nodes and edges as
\* they are (payloads with an empty nodes array, which make the editor
\* fall back to the default flow, aside).
AtomicLoad ==
    [][ (lastOp'.op = "loadData" /\ lastOp'.doc.parses
         /\ ~ (lastOp'.doc.nodesArr /\ Len(lastOp'.doc.nodes) = 0)) =>
          LET d == lastOp'.doc IN
            \/ /\ d.nodesArr /\ d.edgesArr /\ d.edgesOk
               /\ nodes' = d.nodes
               /\ edges' = d.edges
            \/ UNCHANGED <<nodes, edges>> ]_vars


\* C29: teardown cancels the debounce timer.  Once the editor is
\* unmounted no timer of saveToHistory is pending and the history does not
\* change any more.
TeardownCancelsTimer ==
    [][ /\ ~mounted' => ~pending'
        /\ ~mounted => history' = history /\ cursor' = cursor ]_vars

\* the editor has been unmounted while an edit was waiting for its
\* checkpoint: the graph on screen is not the snapshot under the cursor
TeardownCancelsTimerWitness ==
    /\ ~mounted
    /\ lastOp.op = "unmount"
    /\ ~pending
    /\ history[cursor + 1] # Snapshot(nodes, edges)
    /\ Len(history) = 2


\* C30: teardown cancels measurement polls.  No callback of a measurement
\* poll runs once the editor is unmounted.
TeardownCancelsPolls ==
    [][ ~ (~mounted /\ lastOp'.op = "poll") ]_vars


\* C31: the measurement poll of an added node does not retry forever: a poll
\* that keeps finding its node unmeasured stops after a bounded number of
\* retries, so a scheduled poll has always been retried fewer times than
\* the bound
PollRetriesBounded ==
    \A p \in polling : p.tries < MaxRetries


AdjusterOps == {"poll", "dimensions", "dragStop"}

CaseExistsAtReference ==
    [][ lastOp'.op = "addPath" =>
          /\ (~ \E x \in cases : x.id = lastOp'.n) =>
                 /\ ~lastOp'.ok
                 /\ UNCHANGED <<nodes, edges, history, cursor, pending>>
          /\ lastOp'.ok =>
                 \E i \in 1..Len(nodes') :
                     /\ Len(nodes'[i].paths) = Len(nodes[i].paths) + 1
                     /\ nodes'[i].paths[Len(nodes'[i].paths)].case \in cases
                     /\ nodes'[i].paths[Len(nodes'[i].paths)].case.id = lastOp'.n ]_vars

\* a case was removed from the catalog and then selected for a new path of
\* a conditional node that has no path of it: no path was added
CaseExistsAtReferenceWitness ==
    /\ lastOp.op = "addPath"
    /\ ~lastOp.ok
    /\ ~ \E x \in cases : x.id = lastOp.n
    /\ \E i \in 1..Len(nodes) :
          /\ nodes[i].type = "conditional-path"
          /\ ~ \E j \in 1..Len(nodes[i].paths) : nodes[i].paths[j].case.id = lastOp.n


\* C34: undo racing a pending checkpoint.  A debounced checkpoint that was
\* pending when undo or redo restored a snapshot does not, when its timer
\* fires next, append a snapshot or cut the snapshots after the cursor:
\* the history and the cursor stay as the restore left them and, after
\* an undo, redo stays available.
UndoKeepsRedoAgainstPendingCheckpoint ==
    [][ (/\ lastOp.op \in {"undo", "redo"}
         /\ lastOp.ok
         /\ pending
         /\ lastOp'.op = "checkpoint")
        => (/\ history' = history
            /\ cursor' = cursor
            /\ canRedo' = canRedo) ]_vars


\* the graph a new editor starts with
IsDefaultGraph(ns, es) ==
    /\ Len(ns) = 2
    /\ ns[1].type = "start" /\ ns[1].position = [x |-> 100, y |-> 100]
    /\ ns[2].type = "end" /\ ns[2].position = [x |-> 400, y |-> 100]
    /\ ns[1].id # ns[2].id
    /\ Len(es) = 1
    /\ es[1].type = "deletable"
    /\ es[1].source = ns[1].id /\ es[1].target = ns[2].id

\* the handler of this step has set an empty node list: a file or a host
\* message with no nodes was loaded, or the only node was deleted
YieldsNoNodes ==
    \/ /\ lastOp'.op \in {"uploadSidebar", "uploadNavBar", "loadData"}
       /\ lastOp'.ok
       /\ lastOp'.doc.nodesArr
       /\ Len(lastOp'.doc.nodes) = 0
    \/ /\ lastOp'.op = "deleteNode"
       /\ Len(nodes) = 1

\* C35: empty-graph fallback.  No settled state of the editor has an empty
\* node list, and whenever a handler leaves the node list empty the editor
\* installs the default graph: one start node at (100,100), one end node at
\* (400,100) and one edge of type 'deletable' from the start to the end.
EmptyGraphFallback ==
    /\ [](Len(nodes) > 0)
    /\ [][ YieldsNoNodes => IsDefaultGraph(nodes', edges') ]_vars

\* a file with an empty node list has been imported into an editor that
\* showed another graph, and the default graph is on the canvas
EmptyGraphFallbackWitness ==
    /\ lastOp.op = "uploadSidebar"
    /\ lastOp.ok
    /\ Len(lastOp.doc.nodes) = 0
    /\ IsDefaultGraph(nodes, edges)
    /\ nodes[1].id > 3


\* C36: the SVG export does not lose concurrent edits.  The step in which
\* an export finishes, on the success path or on the failure path, leaves
\* the edge list as it is: an edge added or removed while the export was
\* waiting is still added or removed afterwards.
ExportKeepsConcurrentEdits ==
    [][ lastOp'.op \in {"exportDone", "exportFailed"} => edges' = edges ]_vars


\* C37: path removal removes its edges.  Removing a path from a conditional
\* path node takes that path out of the node and takes out exactly the
\* edges whose sourceHandle is the id of the path; the other paths, the
\* other nodes and the other edges stay, and no edge of the node is left
\* on a handle that no longer exists.
PathRemovalRemovesEdges ==
    [][ lastOp'.op = "removePath" =>
          /\ edges' = SelectSeq(edges, LAMBDA e : e.sourceHandle # lastOp'.n)
          /\ Len(nodes') = Len(nodes)
          /\ \A i \in 1..Len(nodes) :
                nodes'[i] = [nodes[i] EXCEPT
                                !.paths = SelectSeq(nodes[i].paths,
                                                    LAMBDA q : q.id # lastOp'.n)]
          /\ \E i \in 1..Len(nodes) : Len(nodes'[i].paths) = Len(nodes[i].paths) - 1
          /\ \A k \in 1..Len(edges') : \A i \in 1..Len(nodes') :
                (/\ nodes'[i].type = "conditional-path"
                 /\ edges'[k].source = nodes'[i].id)
                => \E j \in 1..Len(nodes'[i].paths) :
                       nodes'[i].paths[j].id = edges'[k].sourceHandle ]_vars

\* a path with an edge on its handle has been removed from a conditional
\* node that keeps another path, and an edge of that other path is left
PathRemovalRemovesEdgesWitness ==
    /\ lastOp.op = "removePath"
    /\ lastOp.k = 1
    /\ \E i \in 1..Len(nodes) :
          /\ Len(nodes[i].paths) = 1
          /\ \E k \in 1..Len(edges) : edges[k].sourceHandle = nodes[i].paths[1].id


\* node id has a path of case c
HasPathOf(ns, id, c) ==
    \E i \in 1..Len(ns) :
        /\ ns[i].id = id
        /\ \E j \in 1..Len(ns[i].paths) : ns[i].paths[j].case.id = c

\* C39: one path per case.  Whatever paths are added and removed through
\* the property panel, no two paths of a conditional path node refer to the
\* same case id, and adding a path of a case the node already has a path of
\* leaves the nodes and the edges unchanged.
OnePathPerCase ==
    /\ [](\A i \in 1..Len(nodes) : \A j, k \in 1..Len(nodes[i].paths) :
              nodes[i].paths[j].case.id = nodes[i].paths[k].case.id => j = k)
    /\ [][ (lastOp'.op = "addPath" /\ HasPathOf(nodes, lastOp'.k, lastOp'.n))
           => (~lastOp'.ok /\ UNCHANGED <<nodes, edges>>) ]_vars

\* a path was removed from the conditional node and added again, and then
\* the case of a path the node has was selected once more: nothing was added
OnePathPerCaseWitness ==
    /\ lastOp.op = "addPath"
    /\ ~lastOp.ok
    /\ HasPathOf(nodes, lastOp.k, lastOp.n)
    /\ \E i \in 1..Len(nodes) : \E j \in 1..Len(nodes[i].paths) :
          nodes[i].id = lastOp.k /\ nodes[i].paths[j].id \in 1..MaxId


\* C38: edge handles survive serialisation.  The saveDrawing payload carries
\* the sourceHandle of every edge of the graph, so an edge that leaves a
\* path of a conditional path node is still on that path's handle when the
\* payload is loaded again.
EdgeHandlesSurviveSave ==
    [][ lastOp'.op = "save" =>
          /\ Len(lastOp'.doc.edges) = Len(edges)
          /\ \A i \in 1..Len(edges) :
                lastOp'.doc.edges[i].sourceHandle = edges[i].sourceHandle ]_vars

=============================================================================
